---- MODULE Spec2Model ----
(***************************************************************************)
(* A model of @sspiff/handyaws-frontauth: the Lambda@Edge viewer-request   *)
(* handler frontAuth, with getAuthorizedRequest, setCookieResponse and     *)
(* getAuthBearerToken.  JavaScript strings are sequences of symbols, a     *)
(* JavaScript value is a record tagged with its type.  One action is one   *)
(* run-to-completion stretch of the handler between two awaits.            *)
(***************************************************************************)
EXTENDS Integers, Sequences, FiniteSets, TLC

VARIABLES
  config,       \* the configuration object handed out by getConfigFromTags
  bound,        \* the helpers of the bound `this`
  request,      \* event.Records[0].cf.request, the object of the caller
  pc,           \* where the handler stands
  flow,         \* the branch taken at the classification
  token,        \* the token extracted for this invocation
  cookieConfig, \* the translated cookie directives (issuance)
  verified,     \* what config.jwtVerify settled to in this invocation
  patterns,     \* what this.getAuthorizedPatterns resolved to
  calls,        \* the collaborator calls made by this invocation
  err,          \* what was thrown into the catch block, if anything
  result,       \* the settlement of the promise frontAuth returned
  keyCache,     \* the entry of the PublicKeyCache config.jwtVerify is bound to
  other,        \* a second invocation, suspended at one of its awaits
  scope         \* which deployment and requests the environment draws from

vars == <<config, bound, request, pc, flow, token, cookieConfig, verified,
          patterns, calls, err, result, keyCache, other, scope>>

----------------------------------------------------------------------------
(* Bounds of the model *)

MaxUriLen == 2
MaxPatterns == 2
MaxHeaderLen == 4

----------------------------------------------------------------------------
(* Strings *)

SeqsUpTo(S, n) == UNION {[1..k -> S] : k \in 0..n}

\* JavaScript values: undefined, a string, a number, an array
Undefined == [type |-> "undefined"]
Str(s) == [type |-> "string", str |-> s]
Num(n) == [type |-> "number", num |-> n]
Arr(xs) == [type |-> "array", items |-> xs]
NaN == [type |-> "number", num |-> -1, nan |-> TRUE]
\* JavaScript truthiness
Truthy(v) ==
  CASE v.type = "undefined" -> FALSE
    [] v.type = "string" -> v.str # <<>>
    [] v.type = "number" -> v.num # 0 /\ "nan" \notin DOMAIN v
    [] OTHER -> TRUE
\* `${v}` in a template literal, for a string or undefined
Interpolate(v) == IF v.type = "string" THEN v.str ELSE <<"undefined">>

\* String.prototype.trim, for strings whose only white space is " "
RECURSIVE TrimLeft(_)
TrimLeft(s) == IF s # <<>> /\ Head(s) = " " THEN TrimLeft(Tail(s)) ELSE s
RECURSIVE TrimRight(_)
TrimRight(s) ==
  IF s # <<>> /\ s[Len(s)] = " " THEN TrimRight(SubSeq(s, 1, Len(s) - 1)) ELSE s
Trim(s) == TrimRight(TrimLeft(s))

\* String.prototype.split(' '): the pieces between single spaces; never empty
RECURSIVE Split(_)
Split(s) ==
  IF \A i \in 1..Len(s) : s[i] # " " THEN <<s>>
  ELSE LET i == CHOOSE j \in 1..Len(s) :
                  s[j] = " " /\ \A k \in 1..(j - 1) : s[k] # " "
       IN <<SubSeq(s, 1, i - 1)>> \o Split(SubSeq(s, i + 1, Len(s)))

\* Array.prototype.join(sep)
RECURSIVE Join(_, _)
Join(pieces, sep) ==
  IF pieces = <<>> THEN <<>>
  ELSE IF Len(pieces) = 1 THEN pieces[1]
  ELSE pieces[1] \o sep \o Join(Tail(pieces), sep)

\* parseInt of a string of decimal digits (NaN when it starts with none)
DigitOf(c) ==
  CASE c = "0" -> 0 [] c = "1" -> 1 [] c = "2" -> 2 [] c = "3" -> 3
    [] c = "4" -> 4 [] c = "5" -> 5 [] c = "6" -> 6 [] c = "7" -> 7
    [] c = "8" -> 8 [] c = "9" -> 9 [] OTHER -> -1
RECURSIVE ParseDigits(_, _)
ParseDigits(s, acc) ==
  IF s = <<>> \/ DigitOf(Head(s)) < 0 THEN acc
  ELSE ParseDigits(Tail(s), 10 * acc + DigitOf(Head(s)))
parseInt(v) ==
  IF v.type = "string" /\ TrimLeft(v.str) # <<>> /\ DigitOf(Head(TrimLeft(v.str))) >= 0
  THEN Num(ParseDigits(TrimLeft(v.str), 0))
  ELSE IF v.type = "number" THEN v ELSE NaN

----------------------------------------------------------------------------
(* Regular expressions: the fragment made of a literal, optionally anchored *)
(* at the start with ^; a pattern holding "(" is an unterminated group and  *)
(* new RegExp throws a SyntaxError on it.                                   *)

Compiles(p) == \A i \in 1..Len(p) : p[i] # "("
Anchored(p) == p # <<>> /\ Head(p) = "^"
IsPrefix(l, u) == Len(l) <= Len(u) /\ SubSeq(u, 1, Len(l)) = l
Occurs(l, u) ==
  \E i \in 0..Len(u) : i + Len(l) <= Len(u) /\ SubSeq(u, i + 1, i + Len(l)) = l
\* (new RegExp(p)).test(u), for a pattern that compiles
RegExpTest(p, u) == IF Anchored(p) THEN IsPrefix(Tail(p), u) ELSE Occurs(p, u)

\* a matcher that steps over the patterns that do not compile
RECURSIVE SomeSkippingBad(_, _)
SomeSkippingBad(ps, uri) ==
  IF ps = <<>> THEN "false"
  ELSE IF Compiles(Head(ps)) /\ RegExpTest(Head(ps), uri) THEN "true"
  ELSE SomeSkippingBad(Tail(ps), uri)

\* a matcher that looks at the first pattern only
SomeFirstOnly(ps, uri) ==
  IF ps = <<>> THEN "false"
  ELSE IF ~Compiles(Head(ps)) THEN "SyntaxError"
  ELSE IF RegExpTest(Head(ps), uri) THEN "true"
  ELSE "false"

\* patterns.some(re => (new RegExp(re)).test(uri)): left to right, stops at
\* the first match, and a pattern that does not compile throws when reached
RECURSIVE Some(_, _)
Some(ps, uri) ==
  IF ps = <<>> THEN "false"
  ELSE IF ~Compiles(Head(ps)) THEN "SyntaxError"
  ELSE IF RegExpTest(Head(ps), uri) THEN "true"
  ELSE Some(Tail(ps), uri)

----------------------------------------------------------------------------
(* Responses *)

Forbidden == [status |-> "403", statusDescription |-> "Forbidden"]

\* setCookieResponse({cookieName, cookieConfig, token})
setCookieResponse(cookieName, cookieCfg, tok) ==
  LET cfg == IF Truthy(cookieCfg) THEN <<";", " ">> \o cookieCfg.str ELSE <<>>
  IN [status |-> "204",
      statusDescription |-> "OK",
      headers |-> ("set-cookie" :>
         <<[key |-> "Set-Cookie",
            value |-> Interpolate(cookieName) \o <<"=">> \o Interpolate(tok) \o cfg]>>)]

\* (config.tokenCookieConfig || '').trim().split(' ').join('; ')
CookieConfigOf(cfg) ==
  LET d == IF Truthy(cfg.tokenCookieConfig) THEN cfg.tokenCookieConfig.str ELSE <<>>
  IN Str(Join(Split(Trim(d)), <<";", " ">>))

\* getAuthBearerToken(request): the thrown error, or the value returned
getAuthBearerToken(req) ==
  IF req.authorization.type = "undefined"
  THEN [threw |-> TRUE, error |-> "TypeError"]
  ELSE LET pieces == Split(req.authorization.str)
       IN IF pieces[1] = <<"Bearer">>
          THEN [threw |-> FALSE,
                value |-> IF Len(pieces) >= 2 THEN Str(pieces[2]) ELSE Undefined]
          ELSE [threw |-> TRUE, error |-> "EINVAL"]

----------------------------------------------------------------------------
(* The deployment and the requests *)

Chars == {"/", "x"}
Uris == SeqsUpTo(Chars, MaxUriLen) \ {<<>>}
SetCookieUri == <<"/">>
TokenCookieName == <<"N">>
Tokens == {<<"t1">>}
Claims == {"u1", "u2"}
KeyPairName == <<"testkey">>
PublicKeyStore == <<"test://", "/store/">>

\* the tag cfg.tokenCookieConfig: missing, or directives separated by spaces
CookieConfigs ==
  {Undefined, Str(<<" ">>), Str(<<"S">>), Str(<<"S", " ", "H">>),
   Str(<<"S", " ", " ", "H">>), Str(<<" ", "S", " ">>)}

\* the tags cfg.jwtVerifyOptions.*: none, or clockTolerance and algorithms
\* as the strings a resource tag holds
JwtVerifyOptions ==
  {Undefined,
   [type |-> "object",
    clockTolerance |-> Str(<<"5">>),
    algorithms |-> Str(<<"ES256", " ", "RS256">>)]}

\* what getConfigFromTags resolves to before frontAuth has touched it
Configs ==
  {[setCookieUri |-> u, tokenCookieName |-> Str(TokenCookieName),
    tokenCookieConfig |-> d, clockTolerance |-> Undefined,
    jwtVerifyOptions |-> o, jwtVerify |-> Undefined,
    keyPairName |-> Str(KeyPairName), publicKeyStore |-> Str(PublicKeyStore)] :
      u \in {Undefined, Str(SetCookieUri)}, d \in CookieConfigs,
      o \in JwtVerifyOptions}

\* the bound `this`: getSetCookieToken may be left out
Bounds ==
  {[getSetCookieToken |-> g, getAuthorizedPatterns |-> "function"] :
      g \in {"undefined", "function"}}

\* the Cookie header, as parseCookies reads it: none, or name -> value
CookieHeaders ==
  {Undefined}
    \cup {[type |-> "cookies", map |-> (n :> t)] :
            n \in {TokenCookieName, <<"other">>}, t \in Tokens}

Requests ==
  {[method |-> m, uri |-> u, cookie |-> c, authorization |-> Undefined] :
      m \in {"GET", "POST"}, u \in Uris, c \in CookieHeaders}

\* pattern strings this.getAuthorizedPatterns may hand back
PatternStrings == {<<"^", "/">>, <<"x">>, <<"(">>}
PatternSets == SeqsUpTo(PatternStrings, MaxPatterns)

\* the deployment and the requests of two invocations in flight together:
\* two tokens signed under two key versions, two key stores, one pattern
PairTokens == {<<"t1">>, <<"t2">>}
PairConfigs ==
  {[setCookieUri |-> Str(SetCookieUri), tokenCookieName |-> Str(TokenCookieName),
    tokenCookieConfig |-> Str(<<"S", " ", "H">>), clockTolerance |-> Undefined,
    jwtVerifyOptions |-> o, jwtVerify |-> Undefined,
    keyPairName |-> Str(KeyPairName), publicKeyStore |-> Str(k)] :
      o \in JwtVerifyOptions \ {Undefined},
      k \in {PublicKeyStore, <<"ssm://", "/keyStore/">>}}
PairRequests ==
  {[method |-> "POST", uri |-> u, cookie |-> c, authorization |-> Undefined] :
      u \in {SetCookieUri, <<"x">>},
      c \in {Undefined} \cup {[type |-> "cookies", map |-> (TokenCookieName :> t)] :
                                t \in PairTokens}}
PairPatternSets == {<<>>, <<<<"x">>>>}

\* what the environment draws from in each scope
TokensIn(s) == IF s = "pair" THEN PairTokens ELSE Tokens
RequestsIn(s) == IF s = "pair" THEN PairRequests ELSE Requests
PatternSetsIn(s) == IF s = "pair" THEN PairPatternSets ELSE PatternSets
ClaimsIn(s) == IF s = "pair" THEN {"u1"} ELSE Claims

\* the key version in the header of a token
KeyVersionOf(tok) == IF tok.str = <<"t2">> THEN "2" ELSE "1"

\* a key URI that replaces the path of the store instead of extending it
fetchPublicKeyDataPathSet(cfg, keyName, keyVersion) ==
  Str(<<cfg.publicKeyStore.str[1], "/">> \o keyName.str \o <<"/", keyVersion>>)

\* fetchPublicKeyData(keyName, keyVersion): the URI handed to getKeyValue,
\* the path of config.publicKeyStore with `${keyName}/${keyVersion}` appended
fetchPublicKeyData(cfg, keyName, keyVersion) ==
  Str(cfg.publicKeyStore.str \o keyName.str \o <<"/", keyVersion>>)

\* a lookup that falls back on whatever cookie the request carries
CookieNamedAny(req, name) ==
  IF req.cookie.type = "cookies"
  THEN Str(req.cookie.map[CHOOSE n \in DOMAIN req.cookie.map : TRUE])
  ELSE Undefined

\* parseCookies(request.headers)[name]
CookieNamed(req, name) ==
  IF req.cookie.type = "cookies" /\ name \in DOMAIN req.cookie.map
  THEN Str(req.cookie.map[name]) ELSE Undefined

----------------------------------------------------------------------------
(* frontAuth *)

NoCalls ==
  [getConfigFromTags |-> 0, configArg |-> [ref |-> "none"], configObject |-> "none",
   getSetCookieToken |-> 0, tokenArg |-> [ref |-> "none"],
   jwtVerify |-> 0, verifyArg |-> Undefined, verifyKeyName |-> Undefined,
   verifyOptions |-> Undefined,
   getKeyValue |-> 0, keyUri |-> Undefined,
   getAuthorizedPatterns |-> 0, patternsArg |-> "none"]

Pending == [state |-> "pending"]
Resolved(v) == [state |-> "resolved", value |-> v]
Rejected(e) == [state |-> "rejected", reason |-> e]
\* the value that is the request object of the event itself
TheRequest == [ref |-> "event.Records[0].cf.request"]
\* the value that is the ARN of the context of the event
TheArn == [ref |-> "context.invokedFunctionArn"]
\* a PublicKeyCache of one entry, before the first key is fetched
EmptyCache == [keyName |-> Undefined, keyVersion |-> "none"]
\* no second invocation
NoInvocation == [pc |-> "none"]

Init ==
  /\ config \in Configs
  /\ bound \in Bounds
  /\ request \in Requests
  /\ pc = "idle"
  /\ flow = "none"
  /\ token = Undefined
  /\ cookieConfig = Undefined
  /\ verified = "not called"
  /\ patterns = Undefined
  /\ calls = NoCalls
  /\ err = "none"
  /\ result = Pending
  /\ keyCache = EmptyCache
  /\ other = NoInvocation
  /\ scope = "single"

\* a swizzle that also writes the translated cookie directives back
SwizzleStoring(cfg) ==
  [cfg EXCEPT !.tokenCookieConfig = CookieConfigOf(cfg),
              !.jwtVerify = IF Truthy(cfg.jwtVerify) THEN cfg.jwtVerify
                            ELSE [type |-> "function"]]

\* the swizzle of jwtVerifyOptions and the installation of jwtVerify
Swizzle(cfg) ==
  LET o == cfg.jwtVerifyOptions
      o1 == IF o.type = "object" /\ Truthy(o.clockTolerance)
                 /\ cfg.clockTolerance.type = "string"
            THEN [o EXCEPT !.clockTolerance = parseInt(o.clockTolerance)]
            ELSE o
      o2 == IF o1.type = "object" /\ Truthy(o1.algorithms)
                 /\ o1.algorithms.type = "string"
            THEN [o1 EXCEPT !.algorithms = Arr(Split(Trim(o1.algorithms.str)))]
            ELSE o1
  IN [cfg EXCEPT !.jwtVerifyOptions = o2,
                 !.jwtVerify = IF Truthy(cfg.jwtVerify) THEN cfg.jwtVerify
                               ELSE [type |-> "function"]]

\* config.setCookieUri && this.getSetCookieToken && request.uri === config.setCookieUri
IsSetCookieRequest(cfg, b, req) ==
  /\ Truthy(cfg.setCookieUri)
  /\ b.getSetCookieToken # "undefined"
  /\ req.uri = cfg.setCookieUri.str

\* a catch block that tells the client what went wrong
CatchLeaky(e) ==
  /\ result' = Resolved([status |-> "403", statusDescription |-> "Forbidden",
                         body |-> e])
  /\ err' = e
  /\ pc' = "done"

\* no catch block: the error leaves frontAuth as a rejection
CatchRethrow(e) ==
  /\ result' = Rejected(e)
  /\ err' = e
  /\ pc' = "done"

\* the catch block of frontAuth
Catch(e) ==
  /\ result' = Resolved(Forbidden)
  /\ err' = e
  /\ pc' = "done"

\* the event arrives: frontAuth calls getConfigFromTags and awaits it
Invoke ==
  /\ pc = "idle"
  /\ request' \in RequestsIn(scope)
  /\ pc' = "awaitConfig"
  /\ flow' = "none"
  /\ token' = Undefined
  /\ cookieConfig' = Undefined
  /\ verified' = "not called"
  /\ patterns' = Undefined
  /\ calls' = [NoCalls EXCEPT !.getConfigFromTags = 1, !.configArg = TheArn]
  /\ err' = "none"
  /\ result' = Pending
  /\ UNCHANGED <<config, bound, keyCache, other, scope>>

\* a handler that asks for the configuration a second time before it gives up
ConfigRejectsRetry ==
  /\ pc = "awaitConfig"
  /\ IF calls.getConfigFromTags < 2
     THEN /\ calls' = [calls EXCEPT !.getConfigFromTags = @ + 1]
          /\ UNCHANGED <<pc, err, result>>
     ELSE /\ Catch("getConfigFromTags")
          /\ calls' = calls
  /\ UNCHANGED <<config, bound, request, flow, token, cookieConfig, verified,
                 patterns, keyCache, other, scope>>

\* getConfigFromTags rejects
ConfigRejects ==
  /\ pc = "awaitConfig"
  /\ Catch("getConfigFromTags")
  /\ UNCHANGED <<config, bound, request, flow, token, cookieConfig, verified,
                 patterns, calls, keyCache, other, scope>>

\* what getConfigFromTags may resolve to: the object it handed out before or,
\* in the small deployment and while no other invocation holds that one, a
\* new object built from the tags
ResolvedConfigs ==
  {config} \cup (IF scope = "pair" /\ other.pc \in {"idle", "done"}
                 THEN PairConfigs ELSE {})

\* whether a resolved object is the one handed out before
ObjectOf(cfg) == IF cfg = config THEN "same" ELSE "new"

\* an installation without the test of line 135: every invocation binds a
\* verifier with a new, empty cache
CacheAfterInstallAlways(cfg) == EmptyCache

\* the PublicKeyCache behind cfg.jwtVerify once line 135 has run: the one
\* already there, or the empty cache of a verifier installed just now
CacheAfterInstall(cfg) == IF Truthy(cfg.jwtVerify) THEN keyCache ELSE EmptyCache

\* config.jwtVerify(token, config.keyPairName, config.jwtVerifyOptions)
CallJwtVerify(c, cfg, tok) ==
  [c EXCEPT !.jwtVerify = @ + 1, !.verifyArg = tok,
            !.verifyKeyName = cfg.keyPairName,
            !.verifyOptions = cfg.jwtVerifyOptions]

\* getConfigFromTags resolves, the request is a set-cookie request and
\* this.getSetCookieToken throws
SetCookieTokenThrows ==
  /\ pc = "awaitConfig"
  /\ \E cfg \in ResolvedConfigs :
       /\ config' = Swizzle(cfg)
       /\ keyCache' = CacheAfterInstall(cfg)
       /\ calls' = [calls EXCEPT !.configObject = ObjectOf(cfg),
                                 !.getSetCookieToken = @ + 1,
                                 !.tokenArg = TheRequest]
  /\ IsSetCookieRequest(config', bound, request)
  /\ flow' = "issuance"
  /\ Catch("getSetCookieToken")
  /\ UNCHANGED <<bound, request, token, cookieConfig, verified, patterns,
                 other, scope>>

\* a set-cookie branch that does not await jwtVerify before it answers
SetCookieBeginsNoAwait ==
  /\ pc = "awaitConfig"
  /\ token' \in {Undefined} \cup {Str(t) : t \in TokensIn(scope)}
  /\ \E cfg \in ResolvedConfigs :
       /\ config' = Swizzle(cfg)
       /\ keyCache' = CacheAfterInstall(cfg)
       /\ calls' = CallJwtVerify([calls EXCEPT !.configObject = ObjectOf(cfg),
                                               !.getSetCookieToken = @ + 1,
                                               !.tokenArg = TheRequest],
                                 config', token')
  /\ IsSetCookieRequest(config', bound, request)
  /\ flow' = "issuance"
  /\ cookieConfig' = CookieConfigOf(config')
  /\ verified' = "awaited"
  /\ result' = Resolved(setCookieResponse(config'.tokenCookieName, cookieConfig', token'))
  /\ pc' = "done"
  /\ UNCHANGED <<bound, request, patterns, err, other, scope>>

\* a set-cookie branch that writes the translated directives back to the
\* configuration object
SetCookieBeginsStoring ==
  /\ pc = "awaitConfig"
  /\ token' \in {Undefined} \cup {Str(t) : t \in TokensIn(scope)}
  /\ \E cfg \in ResolvedConfigs :
       /\ cookieConfig' = CookieConfigOf(Swizzle(cfg))
       /\ config' = [Swizzle(cfg) EXCEPT !.tokenCookieConfig = cookieConfig']
       /\ keyCache' = CacheAfterInstall(cfg)
       /\ calls' = CallJwtVerify([calls EXCEPT !.configObject = ObjectOf(cfg),
                                               !.getSetCookieToken = @ + 1,
                                               !.tokenArg = TheRequest],
                                 config', token')
  /\ IsSetCookieRequest(config', bound, request)
  /\ flow' = "issuance"
  /\ verified' = "awaited"
  /\ pc' = "awaitVerifySetCookie"
  /\ UNCHANGED <<bound, request, patterns, err, result, other, scope>>

\* getConfigFromTags resolves, the request is a set-cookie request,
\* this.getSetCookieToken returns a value and jwtVerify is called with it
SetCookieBegins ==
  /\ pc = "awaitConfig"
  /\ token' \in {Undefined} \cup {Str(t) : t \in TokensIn(scope)}
  /\ \E cfg \in ResolvedConfigs :
       /\ config' = Swizzle(cfg)
       /\ keyCache' = CacheAfterInstall(cfg)
       /\ calls' = CallJwtVerify([calls EXCEPT !.configObject = ObjectOf(cfg),
                                               !.getSetCookieToken = @ + 1,
                                               !.tokenArg = TheRequest],
                                 config', token')
  /\ IsSetCookieRequest(config', bound, request)
  /\ flow' = "issuance"
  /\ cookieConfig' = CookieConfigOf(config')
  /\ verified' = "awaited"
  /\ pc' = "awaitVerifySetCookie"
  /\ UNCHANGED <<bound, request, patterns, err, result, other, scope>>

\* an authorization branch that reads the claims off the token unverified
AuthorizedRequestBeginsUnverified ==
  /\ pc = "awaitConfig"
  /\ \E cfg \in ResolvedConfigs :
       /\ config' = Swizzle(cfg)
       /\ keyCache' = CacheAfterInstall(cfg)
       /\ \E c \in ClaimsIn(scope) :
            calls' = [calls EXCEPT !.configObject = ObjectOf(cfg),
                                   !.getAuthorizedPatterns = @ + 1,
                                   !.patternsArg = c]
  /\ ~IsSetCookieRequest(config', bound, request)
  /\ flow' = "authorization"
  /\ token' = CookieNamed(request, config'.tokenCookieName.str)
  /\ pc' = "awaitPatterns"
  /\ UNCHANGED <<bound, request, cookieConfig, verified, patterns, err, result,
                 other, scope>>

\* getConfigFromTags resolves and the request is any other request:
\* getAuthorizedRequest reads the cookie and jwtVerify is called with it
AuthorizedRequestBegins ==
  /\ pc = "awaitConfig"
  /\ \E cfg \in ResolvedConfigs :
       /\ config' = Swizzle(cfg)
       /\ keyCache' = CacheAfterInstall(cfg)
       /\ token' = CookieNamed(request, config'.tokenCookieName.str)
       /\ calls' = CallJwtVerify([calls EXCEPT !.configObject = ObjectOf(cfg)],
                                 config', token')
  /\ ~IsSetCookieRequest(config', bound, request)
  /\ flow' = "authorization"
  /\ verified' = "awaited"
  /\ pc' = "awaitVerifyAuthorized"
  /\ UNCHANGED <<bound, request, cookieConfig, patterns, err, result,
                 other, scope>>

\* the entry of the cache that serves a token verified under keyName
EntryFor(keyName, tok) == [keyName |-> keyName, keyVersion |-> KeyVersionOf(tok)]

\* the verifier finds the key of the token in its PublicKeyCache
KeyCached(tok) == keyCache = EntryFor(calls.verifyKeyName, tok)

\* the cache calls fetchPublicKeyData(keyName, keyVersion), which calls
\* getKeyValue with the URI of the key
KeyFetch(c, tok) ==
  [c EXCEPT !.getKeyValue = @ + 1,
            !.keyUri = fetchPublicKeyData(config, c.verifyKeyName,
                                          KeyVersionOf(tok))]

\* a handler that remembers what it answered for a token and answers the
\* same again when the verifier rejects
VerifyRejectsStale ==
  /\ pc \in {"awaitVerifySetCookie", "awaitVerifyAuthorized"}
  /\ verified' = "rejected"
  /\ IF other.pc = "done" /\ other.token = token /\ other.flow = flow
          /\ other.result # Resolved(Forbidden)
     THEN /\ result' = other.result
          /\ err' = err
          /\ pc' = "done"
     ELSE Catch("jwtVerify")
  /\ UNCHANGED <<config, bound, request, flow, token, cookieConfig, patterns,
                 keyCache, calls, other, scope>>

\* config.jwtVerify rejects: no token at all or an unreadable one, a key
\* that cannot be fetched, a bad signature, an expired token
VerifyRejects ==
  /\ pc \in {"awaitVerifySetCookie", "awaitVerifyAuthorized"}
  /\ verified' = "rejected"
  /\ Catch("jwtVerify")
  /\ \/ UNCHANGED <<keyCache, calls>>
     \/ /\ Truthy(token)
        /\ ~KeyCached(token)
        /\ calls' = KeyFetch(calls, token)
        /\ keyCache' \in {keyCache, EntryFor(calls.verifyKeyName, token)}
  /\ UNCHANGED <<config, bound, request, flow, token, cookieConfig, patterns,
                 other, scope>>

\* what config.jwtVerify may resolve to for a token: a token that is
\* undefined or empty is never accepted
VerifyResolutions(tok) == IF Truthy(tok) THEN ClaimsIn(scope) ELSE {}

\* the calls made by the time config.jwtVerify resolves: the key is fetched
\* unless the cache holds it
CallsWhenVerified(c, tok) == IF KeyCached(tok) THEN c ELSE KeyFetch(c, tok)

\* config.jwtVerify resolves in the set-cookie branch
SetCookieVerified ==
  /\ pc = "awaitVerifySetCookie"
  /\ verified' \in VerifyResolutions(token)
  /\ calls' = CallsWhenVerified(calls, token)
  /\ keyCache' = EntryFor(calls.verifyKeyName, token)
  /\ result' = Resolved(setCookieResponse(config.tokenCookieName, cookieConfig, token))
  /\ pc' = "done"
  /\ UNCHANGED <<config, bound, request, flow, token, cookieConfig, patterns,
                 err, other, scope>>

\* a branch that asks the pattern provider twice
AuthorizedVerifiedTwice ==
  /\ pc = "awaitVerifyAuthorized"
  /\ verified' \in VerifyResolutions(token)
  /\ calls' = [CallsWhenVerified(calls, token)
                 EXCEPT !.getAuthorizedPatterns = @ + 2,
                        !.patternsArg = verified']
  /\ keyCache' = EntryFor(calls.verifyKeyName, token)
  /\ pc' = "awaitPatterns"
  /\ UNCHANGED <<config, bound, request, flow, token, cookieConfig, patterns,
                 err, result, other, scope>>

\* config.jwtVerify resolves in getAuthorizedRequest:
\* this.getAuthorizedPatterns is called with the claims
AuthorizedVerified ==
  /\ pc = "awaitVerifyAuthorized"
  /\ verified' \in VerifyResolutions(token)
  /\ calls' = [CallsWhenVerified(calls, token)
                 EXCEPT !.getAuthorizedPatterns = @ + 1,
                        !.patternsArg = verified']
  /\ keyCache' = EntryFor(calls.verifyKeyName, token)
  /\ pc' = "awaitPatterns"
  /\ UNCHANGED <<config, bound, request, flow, token, cookieConfig, patterns,
                 err, result, other, scope>>

\* this.getAuthorizedPatterns throws or rejects
PatternsReject ==
  /\ pc = "awaitPatterns"
  /\ Catch("getAuthorizedPatterns")
  /\ UNCHANGED <<config, bound, request, flow, token, cookieConfig, verified,
                 patterns, calls, keyCache, other, scope>>

\* a pass-through that hands back a copy of the request
PassThroughCopy(req) == req

\* `return request` in getAuthorizedRequest: the object itself, not a copy
PassThrough(req) == TheRequest

\* this.getAuthorizedPatterns resolves and the request URI is matched
PatternsResolve ==
  /\ pc = "awaitPatterns"
  /\ \E ps \in PatternSetsIn(scope) :
       /\ patterns' = Arr(ps)
       /\ LET m == Some(ps, request.uri)
          IN IF m = "true"
             THEN /\ result' = Resolved(PassThrough(request))
                  /\ pc' = "done"
                  /\ err' = err
             ELSE Catch(IF m = "false" THEN "EACCES" ELSE m)
  /\ UNCHANGED <<config, bound, request, flow, token, cookieConfig, verified,
                 calls, keyCache, other, scope>>

\* the promise has settled and its value is with the runtime: the locals of
\* the invocation are gone, the configuration object and the request stay
Return ==
  /\ pc = "done"
  /\ pc' = "idle"
  /\ flow' = "none"
  /\ token' = Undefined
  /\ cookieConfig' = Undefined
  /\ verified' = "not called"
  /\ patterns' = Undefined
  /\ calls' = NoCalls
  /\ err' = "none"
  /\ result' = Pending
  /\ UNCHANGED <<config, bound, request, keyCache, other, scope>>

Next ==
  \/ Invoke
  \/ ConfigRejects
  \/ SetCookieTokenThrows
  \/ SetCookieBegins
  \/ AuthorizedRequestBegins
  \/ VerifyRejects
  \/ SetCookieVerified
  \/ AuthorizedVerified
  \/ PatternsReject
  \/ PatternsResolve
  \/ Return

Spec == Init /\ [][Next]_vars

\* the awaited collaborators settle: every step but the arrival of an event
Settle ==
  \/ ConfigRejects
  \/ SetCookieTokenThrows
  \/ SetCookieBegins
  \/ AuthorizedRequestBegins
  \/ VerifyRejects
  \/ SetCookieVerified
  \/ AuthorizedVerified
  \/ PatternsReject
  \/ PatternsResolve

FairSpec == Spec /\ WF_vars(Settle)

----------------------------------------------------------------------------
(* Two invocations in flight together.  JavaScript runs one of them at a  *)
(* time and hands over at an await: the locals of the one that runs are   *)
(* exchanged with those of the one that waits, the configuration object   *)
(* and its verifier are shared.                                           *)

Locals ==
  [request |-> request, pc |-> pc, flow |-> flow, token |-> token,
   cookieConfig |-> cookieConfig, verified |-> verified, patterns |-> patterns,
   calls |-> calls, err |-> err, result |-> result]

IdleLocals(req) ==
  [request |-> req, pc |-> "idle", flow |-> "none", token |-> Undefined,
   cookieConfig |-> Undefined, verified |-> "not called", patterns |-> Undefined,
   calls |-> NoCalls, err |-> "none", result |-> Pending]

InitPair ==
  /\ config \in PairConfigs
  /\ bound = [getSetCookieToken |-> "function", getAuthorizedPatterns |-> "function"]
  /\ request \in PairRequests
  /\ pc = "idle"
  /\ flow = "none"
  /\ token = Undefined
  /\ cookieConfig = Undefined
  /\ verified = "not called"
  /\ patterns = Undefined
  /\ calls = NoCalls
  /\ err = "none"
  /\ result = Pending
  /\ keyCache = EmptyCache
  /\ other \in {IdleLocals(r) : r \in PairRequests}
  /\ scope = "pair"

\* an event loop over handlers that keep `token` outside the invocation:
\* the token is not exchanged with the other locals
SwitchSharingToken ==
  /\ other.pc # "none"
  /\ other' = Locals
  /\ request' = other.request
  /\ pc' = other.pc
  /\ flow' = other.flow
  /\ token' = token
  /\ cookieConfig' = other.cookieConfig
  /\ verified' = other.verified
  /\ patterns' = other.patterns
  /\ calls' = other.calls
  /\ err' = other.err
  /\ result' = other.result
  /\ UNCHANGED <<config, bound, keyCache, scope>>

\* the event loop leaves the invocation that runs at its await, or after its
\* return, and resumes the other one
Switch ==
  /\ other.pc # "none"
  /\ other' = Locals
  /\ request' = other.request
  /\ pc' = other.pc
  /\ flow' = other.flow
  /\ token' = other.token
  /\ cookieConfig' = other.cookieConfig
  /\ verified' = other.verified
  /\ patterns' = other.patterns
  /\ calls' = other.calls
  /\ err' = other.err
  /\ result' = other.result
  /\ UNCHANGED <<config, bound, keyCache, scope>>

NextPair == Next \/ Switch

SpecPair == InitPair /\ [][NextPair]_vars

----------------------------------------------------------------------------
(* getAuthBearerToken on its own, over every short Authorization value *)

HeaderSymbols == {"Bearer", "Basic", " ", "t"}
HeaderValues == SeqsUpTo(HeaderSymbols, MaxHeaderLen)

InitBearer ==
  /\ config \in {c \in Configs : c.tokenCookieConfig = Undefined}
  /\ bound = [getSetCookieToken |-> "getAuthBearerToken",
              getAuthorizedPatterns |-> "function"]
  /\ request \in {[method |-> "POST", uri |-> SetCookieUri, cookie |-> Undefined,
                   authorization |-> Str(v)] : v \in HeaderValues}
  /\ pc = "idle"
  /\ flow = "none"
  /\ token = Undefined
  /\ cookieConfig = Undefined
  /\ verified = "not called"
  /\ patterns = Undefined
  /\ calls = NoCalls
  /\ err = "none"
  /\ result = Pending
  /\ keyCache = EmptyCache
  /\ other = NoInvocation
  /\ scope = "single"

\* getAuthBearerToken(request) is called and returns or throws
CallGetAuthBearerToken ==
  /\ pc = "idle"
  /\ LET r == getAuthBearerToken(request)
     IN /\ token' = IF r.threw THEN Undefined ELSE r.value
        /\ err' = IF r.threw THEN r.error ELSE "none"
  /\ calls' = [calls EXCEPT !.getSetCookieToken = @ + 1]
  /\ pc' = "done"
  /\ UNCHANGED <<config, bound, request, flow, cookieConfig, verified,
                 patterns, result, keyCache, other, scope>>

SpecBearer == InitBearer /\ [][CallGetAuthBearerToken]_vars

----------------------------------------------------------------------------
(* The three outcomes of an invocation *)

IsForbidden(r) == r = Resolved(Forbidden)
IsAllow(r) == r = Resolved(TheRequest)
IsIssueCookie(r) ==
  /\ r.state = "resolved"
  /\ DOMAIN r.value = {"status", "statusDescription", "headers"}
  /\ r.value.status = "204"
  /\ r.value.statusDescription = "OK"
HasSetCookie(r) ==
  /\ r.state = "resolved"
  /\ "headers" \in DOMAIN r.value
  /\ "set-cookie" \in DOMAIN r.value.headers

\* some step of the invocation failed: an error reached the catch block, the
\* verifier rejected, the request carried no token cookie, or the patterns
\* came back and none of them matched
NoPatternMatches ==
  /\ patterns.type = "array"
  /\ \A i \in 1..Len(patterns.items) :
       ~(Compiles(patterns.items[i]) /\ RegExpTest(patterns.items[i], request.uri))
StepFailed ==
  \/ err # "none"
  \/ verified = "rejected"
  \/ flow = "authorization" /\ token = Undefined
  \/ NoPatternMatches

\* C1: whenever a step of an invocation has failed (configuration, token
\* extraction, missing cookie, verification, pattern derivation, pattern
\* compilation, no match) the value returned is exactly the response
\* {status: '403', statusDescription: 'Forbidden'}, with no other field,
\* whatever the cause was.
C1_FailureIsForbidden ==
  (pc = "done" /\ StepFailed) => result = Resolved(Forbidden)

C1_Witness ==
  /\ pc = "done"
  /\ err = "SyntaxError"
  /\ result = Resolved(Forbidden)

\* C2: an invocation enters the issuance flow if and only if the request's
\* method is POST and its URI equals the configured setCookieUri; every
\* other request enters the authorization flow.  (Stated for the deployments
\* that bind getSetCookieToken, as the documentation asks.)
C2_IssuanceIffPostToSetCookieUri ==
  (flow # "none" /\ bound.getSetCookieToken # "undefined") =>
    (flow = "issuance" <=>
       /\ request.method = "POST"
       /\ config.setCookieUri.type = "string"
       /\ request.uri = config.setCookieUri.str)

\* C3, as stated: once the token has verified and the patterns are there,
\* the outcome is Allow if and only if some pattern compiles and matches the
\* URI.
SomePatternMatches(ps, uri) ==
  \E i \in 1..Len(ps) : Compiles(ps[i]) /\ RegExpTest(ps[i], uri)
C3_AllowIffSomePatternMatches ==
  (pc = "done" /\ flow = "authorization" /\ patterns.type = "array") =>
    (IsAllow(result) <=> SomePatternMatches(patterns.items, request.uri))

\* C3, amended: the outcome is Allow if and only if some pattern matches the
\* URI and every pattern before it compiles; otherwise it is Forbidden, and
\* so it is for the empty pattern set.
FirstMatchIsReached(ps, uri) ==
  \E i \in 1..Len(ps) :
    /\ Compiles(ps[i]) /\ RegExpTest(ps[i], uri)
    /\ \A j \in 1..(i - 1) : Compiles(ps[j])
C3_AllowIffFirstMatchIsReached ==
  (pc = "done" /\ flow = "authorization" /\ patterns.type = "array") =>
    /\ verified \in Claims
    /\ IsAllow(result) <=> FirstMatchIsReached(patterns.items, request.uri)
    /\ ~IsAllow(result) => IsForbidden(result)
    /\ patterns.items = <<>> => IsForbidden(result)

C3_Witness ==
  /\ pc = "done"
  /\ flow = "authorization"
  /\ patterns = Arr(<<<<"x">>, <<"(">>>>)
  /\ request.uri = <<"/", "x">>
  /\ IsAllow(result)

\* C4: the pattern provider is called only after the verification of this
\* invocation's cookie token has succeeded, and with exactly the claims the
\* verification returned; Allow is reached only after that; a token whose
\* verification failed or is still awaited never reaches the provider or the
\* match.
C4_NoAuthorizationWithoutVerification ==
  /\ calls.getAuthorizedPatterns > 0 =>
       /\ flow = "authorization"
       /\ verified \in Claims
       /\ calls.patternsArg = verified
       /\ calls.jwtVerify = 1
       /\ calls.verifyArg = token
       /\ token = CookieNamed(request, config.tokenCookieName.str)
  /\ IsAllow(result) => (verified \in Claims /\ calls.getAuthorizedPatterns = 1)
  /\ patterns.type = "array" => calls.getAuthorizedPatterns = 1
  /\ verified \notin Claims =>
       (calls.getAuthorizedPatterns = 0 /\ patterns = Undefined /\ ~IsAllow(result))

C4_Witness ==
  /\ pc = "done"
  /\ IsAllow(result)
  /\ verified = "u2"
  /\ calls.patternsArg = "u2"

\* C5: in the issuance flow a response with a Set-Cookie header is returned
\* only if the verification of the submitted token succeeded in the same
\* invocation; when extraction or verification fails the outcome is Forbidden
\* and carries no Set-Cookie header.
C5_NoCookieWithoutVerification ==
  /\ HasSetCookie(result) =>
       /\ flow = "issuance"
       /\ verified \in Claims
       /\ calls.verifyArg = token
       /\ calls.jwtVerify = 1
  /\ (pc = "done" /\ flow = "issuance" /\ verified \notin Claims) =>
       (IsForbidden(result) /\ ~HasSetCookie(result))

C5_Witness ==
  /\ pc = "done"
  /\ flow = "issuance"
  /\ HasSetCookie(result)
  /\ verified \in Claims

\* the directives of a space-separated list: its runs of non-space symbols
RECURSIVE Directives(_)
Directives(d) ==
  LET t == TrimLeft(d)
  IN IF t = <<>> THEN <<>>
     ELSE LET n == IF \E i \in 1..Len(t) : t[i] = " "
                   THEN CHOOSE i \in 1..Len(t) :
                          t[i] = " " /\ \A k \in 1..(i - 1) : t[k] # " "
                   ELSE Len(t) + 1
          IN <<SubSeq(t, 1, n - 1)>> \o Directives(SubSeq(t, n, Len(t)))

\* C6: a successful issuance with cookie name N, token T and space-separated
\* tokenCookieConfig D answers 204 / 'OK' with a single Set-Cookie header
\* whose value is "N=T" when D holds no directive and "N=T; " followed by the
\* directives of D joined by "; " otherwise.
C6_CookieValue ==
  (pc = "done" /\ flow = "issuance" /\ err = "none") =>
    LET d == IF config.tokenCookieConfig.type = "string"
             THEN Directives(config.tokenCookieConfig.str) ELSE <<>>
        nt == config.tokenCookieName.str \o <<"=">> \o token.str
    IN /\ IsIssueCookie(result)
       /\ DOMAIN result.value.headers = {"set-cookie"}
       /\ Len(result.value.headers["set-cookie"]) = 1
       /\ result.value.headers["set-cookie"][1].key = "Set-Cookie"
       /\ result.value.headers["set-cookie"][1].value =
            IF d = <<>> THEN nt ELSE nt \o <<";", " ">> \o Join(d, <<";", " ">>)

C8_RequestOnlyRead ==
  [][/\ pc # "idle" => request' = request
     /\ (pc' = "done" /\ flow' = "authorization" /\ err' = "none") =>
          (result' = Resolved(TheRequest) /\ request' = request)]_vars

C8_Witness ==
  /\ pc = "done"
  /\ flow = "authorization"
  /\ err = "none"
  /\ result = Resolved(TheRequest)
  /\ request.method = "POST"

\* C9: every invocation, its awaited collaborators settling, ends with
\* exactly one of IssueCookie (the 204 response), Allow (the request) and
\* Forbidden (the 403 response); the promise never rejects and is pending
\* until then.
OutcomesOf(r) ==
  {o \in {"IssueCookie", "Allow", "Forbidden"} :
     \/ o = "IssueCookie" /\ IsIssueCookie(r)
     \/ o = "Allow" /\ IsAllow(r)
     \/ o = "Forbidden" /\ IsForbidden(r)}
C9_TerminatesWithOneOutcome ==
  /\ [](pc = "done" => Cardinality(OutcomesOf(result)) = 1)
  /\ [](pc \notin {"idle", "done"} => result = Pending)
  /\ [](pc \notin {"idle", "done"} => <>(pc = "done"))

C9_Witness ==
  /\ pc = "done"
  /\ OutcomesOf(result) = {"IssueCookie"}
  /\ bound.getSetCookieToken = "function"

\* the scheme of an Authorization value (what stands before the first space)
\* and what follows the scheme, without the spaces around it
SchemeOf(v) ==
  IF \E i \in 1..Len(v) : v[i] = " "
  THEN SubSeq(v, 1, (CHOOSE i \in 1..Len(v) :
                       v[i] = " " /\ \A k \in 1..(i - 1) : v[k] # " ") - 1)
  ELSE v
AfterScheme(v) == Trim(SubSeq(v, Len(SchemeOf(v)) + 1, Len(v)))

\* C10: getAuthBearerToken returns, for an Authorization value whose scheme
\* is exactly "Bearer", the token that follows the scheme; for every other
\* scheme it throws 'EINVAL' and returns no token.
C10_BearerToken ==
  pc = "done" =>
    LET v == request.authorization.str
    IN IF SchemeOf(v) = <<"Bearer">>
       THEN /\ err = "none"
            /\ \/ token = Str(AfterScheme(v))
               \/ AfterScheme(v) = <<>> /\ token = Undefined
       ELSE err = "EINVAL" /\ token = Undefined

----------------------------------------------------------------------------
(* C11: statelessness across invocations *)

\* C11 as stated: an invocation leaves the configuration object exactly as
\* getConfigFromTags produced it.
C11_ConfigLeftAsProduced == [][config' \in ResolvedConfigs]_vars

\* C11 (amended): an invocation changes the configuration object it resolved
\* in jwtVerifyOptions and jwtVerify only, and an invocation that receives an
\* object on which jwtVerify is installed already leaves it unchanged.
C11_ConfigChangedOnlyBySwizzle ==
  [][\E cfg \in ResolvedConfigs :
       /\ \A f \in DOMAIN cfg \ {"jwtVerifyOptions", "jwtVerify"} :
            config'[f] = cfg[f]
       /\ Truthy(cfg.jwtVerify) => config' = cfg]_vars

\* a later invocation on the object an earlier one has swizzled: it verified
\* its token with the key the earlier one fetched
C11_Witness ==
  /\ pc = "done"
  /\ calls.configObject = "same"
  /\ config.jwtVerifyOptions.algorithms.type = "array"
  /\ verified \in Claims
  /\ calls.getKeyValue = 0

----------------------------------------------------------------------------
(* C12: concurrency safety *)

\* what an invocation returns when it runs alone with the request and the
\* collaborator results of L: the configuration resolved or not, the token
\* handed to the verifier, what the verifier settled to, the patterns
SoloOutcome(L) ==
  IF L.err = "getConfigFromTags" THEN Forbidden
  ELSE IF IsSetCookieRequest(config, bound, L.request)
  THEN IF L.verified \in Claims
       THEN setCookieResponse(config.tokenCookieName, CookieConfigOf(config),
                              L.calls.verifyArg)
       ELSE Forbidden
  ELSE IF L.verified \in Claims /\ L.patterns.type = "array"
            /\ L.calls.verifyArg = CookieNamed(L.request, config.tokenCookieName.str)
            /\ Some(L.patterns.items, L.request.uri) = "true"
       THEN TheRequest
       ELSE Forbidden

\* C12: of two invocations that interleave at their awaits and share the
\* configuration object, each returns the outcome it would return alone
\* with the same request and the same collaborator results.
C12_OutcomeAsIfAlone ==
  \A L \in {Locals, other} :
    L.pc = "done" => L.result = Resolved(SoloOutcome(L))

\* one invocation has issued its cookie while the other, on the same
\* configuration object and with another token, waits for the verifier
C12_Witness ==
  /\ pc = "done"
  /\ IsIssueCookie(result)
  /\ other.pc = "awaitVerifySetCookie"
  /\ other.calls.configObject = "same"
  /\ calls.configObject = "same"
  /\ Truthy(other.token)
  /\ other.token # token

----------------------------------------------------------------------------
(* C13: idempotence of issuance *)

\* C13: two issuance invocations that were handed the same token, under the
\* same cookie name and directives, and whose verification succeeded, return
\* the same cookie response: status, cookie name, token and directives.
C13_IssuanceIdempotent ==
  (/\ pc = "done"
   /\ other.pc = "done"
   /\ IsIssueCookie(result)
   /\ IsIssueCookie(other.result)
   /\ calls.verifyArg = other.calls.verifyArg) => result = other.result

\* the same token issued twice on the same configuration object
C13_Witness ==
  /\ pc = "done"
  /\ other.pc = "done"
  /\ IsIssueCookie(result)
  /\ IsIssueCookie(other.result)
  /\ calls.verifyArg = other.calls.verifyArg
  /\ calls.configObject = "same"
  /\ calls.getKeyValue = 0
  /\ other.calls.getKeyValue = 1

----------------------------------------------------------------------------
(* C14: order independence of matching *)

\* the sequences that hold the patterns of ps in some order
Rearrangements(ps) ==
  {[i \in 1..Len(ps) |-> ps[f[i]]] :
     f \in {g \in [1..Len(ps) -> 1..Len(ps)] :
              \A i, j \in 1..Len(ps) : g[i] = g[j] => i = j}}

\* C14 as stated: whatever patterns the provider returns, compilable or not,
\* every order of them gives the outcome the invocation gave.
C14_OrderIndependent ==
  (pc = "done" /\ patterns.type = "array") =>
    \A q \in Rearrangements(patterns.items) :
      IsAllow(result) <=> Some(q, request.uri) = "true"

\* C14 (amended): when every pattern the provider returns compiles, every
\* order of them gives the outcome the invocation gave.
C14_OrderIndependentWhenAllCompile ==
  (/\ pc = "done"
   /\ patterns.type = "array"
   /\ \A i \in 1..Len(patterns.items) : Compiles(patterns.items[i])) =>
    \A q \in Rearrangements(patterns.items) :
      IsAllow(result) <=> Some(q, request.uri) = "true"

\* Allow on two compilable patterns of which only the second matches
C14_Witness ==
  /\ pc = "done"
  /\ IsAllow(result)
  /\ patterns.type = "array"
  /\ Len(patterns.items) = 2
  /\ Compiles(patterns.items[1])
  /\ Compiles(patterns.items[2])
  /\ ~RegExpTest(patterns.items[1], request.uri)
  /\ RegExpTest(patterns.items[2], request.uri)

----------------------------------------------------------------------------
(* C15: no stale authorization *)

\* C15: every invocation has its own token verified: one whose verification
\* was rejected returns Forbidden, in either flow and whatever another
\* invocation returned for the same token, and one that returns the request
\* or a cookie called the verifier itself, once, with its token.
C15_NoStaleAuthorization ==
  \A L \in {Locals, other} :
    L.pc = "done" =>
      /\ L.verified = "rejected" => L.result = Resolved(Forbidden)
      /\ L.result # Resolved(Forbidden) =>
           /\ L.calls.jwtVerify = 1
           /\ L.calls.verifyArg = L.token
           /\ L.verified \in Claims

\* a token the verifier rejects in this invocation although another
\* invocation on the same configuration object was let through with it
C15_Witness ==
  /\ pc = "done"
  /\ flow = "authorization"
  /\ verified = "rejected"
  /\ IsForbidden(result)
  /\ calls.configObject = "same"
  /\ other.pc = "done"
  /\ other.token = token
  /\ IsAllow(other.result)

----------------------------------------------------------------------------
(* C16: collaborator calls per flow *)

\* C16: an issuance invocation has called this.getSetCookieToken once, with
\* the request object of the event, and this.getAuthorizedPatterns never; an
\* authorization invocation has never called this.getSetCookieToken and has
\* called this.getAuthorizedPatterns once if the verifier resolved and never
\* if it did not.
C16_CallsPerFlow ==
  pc = "done" =>
    /\ flow = "issuance" =>
         /\ calls.getSetCookieToken = 1
         /\ calls.tokenArg = TheRequest
         /\ calls.getAuthorizedPatterns = 0
    /\ flow = "authorization" =>
         /\ calls.getSetCookieToken = 0
         /\ calls.getAuthorizedPatterns = (IF verified \in Claims THEN 1 ELSE 0)

\* an authorization invocation whose token verified and whose patterns came
\* back without a match
C16_Witness ==
  /\ pc = "done"
  /\ flow = "authorization"
  /\ verified \in Claims
  /\ calls.getAuthorizedPatterns = 1
  /\ patterns.type = "array"
  /\ err = "EACCES"

----------------------------------------------------------------------------
(* C17: no retry inside frontAuth *)

\* C17: an invocation calls getConfigFromTags once, with the ARN of the
\* context, and config.jwtVerify at most once; when the configuration is not
\* resolved or the verifier rejects, it ends Forbidden with that one call.
C17_NoRetry ==
  /\ calls.getConfigFromTags <= 1
  /\ calls.jwtVerify <= 1
  /\ pc # "idle" =>
       /\ calls.getConfigFromTags = 1
       /\ calls.configArg = TheArn
  /\ (pc = "done" /\ err = "getConfigFromTags") =>
       /\ IsForbidden(result)
       /\ calls.jwtVerify = 0
  /\ verified = "rejected" =>
       /\ pc = "done"
       /\ IsForbidden(result)
       /\ calls.jwtVerify = 1

\* the configuration could not be resolved: one call, then Forbidden
C17_Witness ==
  /\ pc = "done"
  /\ err = "getConfigFromTags"
  /\ calls.getConfigFromTags = 1
  /\ calls.configArg = TheArn
  /\ IsForbidden(result)

----------------------------------------------------------------------------
(* C18: normalisation of the verify options *)

\* C18: when the tags supply jwtVerifyOptions.clockTolerance as a string,
\* the options handed to config.jwtVerify carry clockTolerance as the
\* integer parseInt reads from that string.
C18_ClockToleranceParsed ==
  (calls.jwtVerify > 0 /\ calls.verifyOptions.type = "object") =>
    /\ calls.verifyOptions.clockTolerance.type = "number"
    /\ calls.verifyOptions.clockTolerance \in
         {parseInt(o.clockTolerance) : o \in JwtVerifyOptions \ {Undefined}}

----------------------------------------------------------------------------
(* C19: the URI of a public key *)

----------------------------------------------------------------------------
(* C20: the verifier is installed once per configuration object *)

\* C20: an invocation that receives a configuration object on which
\* jwtVerify is installed keeps that verifier and its key cache and leaves
\* the object, with algorithms as the list it was split into, as it is; and
\* a verification that finds the key version of its token in that cache
\* makes no call of getKeyValue.
C20_VerifierInstalledOnce ==
  [][/\ (/\ other' = other
         /\ pc = "awaitConfig"
         /\ calls'.configObject = "same"
         /\ Truthy(config.jwtVerify)) =>
          /\ config' = config
          /\ keyCache' = keyCache
     /\ (/\ other' = other
         /\ pc \in {"awaitVerifySetCookie", "awaitVerifyAuthorized"}
         /\ verified' \in Claims
         /\ keyCache.keyVersion = KeyVersionOf(token)) =>
          /\ calls'.getKeyValue = 0
          /\ keyCache' = keyCache]_vars

\* as in the test: a cookie is issued, the key is fetched; the request that
\* follows on the same configuration object carries the cookie and is let
\* through without a call of getKeyValue
C20_Witness ==
  /\ pc = "done"
  /\ flow = "authorization"
  /\ IsAllow(result)
  /\ calls.configObject = "same"
  /\ calls.getKeyValue = 0
  /\ other.pc = "done"
  /\ other.flow = "issuance"
  /\ IsIssueCookie(other.result)
  /\ other.calls.getKeyValue = 1
  /\ other.token = token

====
